---- MODULE Spec2Model ----
(***************************************************************************)
(* A model of LangChainKaltura/KalturaCaptionLoader.py: the constructor,   *)
(* load(), fetchMediaCaption() and the caption windowing loop.             *)
(*                                                                         *)
(* Times are SubRipTime ordinals (milliseconds).  The responses of the     *)
(* remote platform (media list, caption asset list, caption contents) are  *)
(* inputs, chosen when the call that returns them is made.                 *)
(***************************************************************************)
EXTENDS Integers, Sequences, FiniteSets, TLC

\* ------------------------------------------------------------------ bounds
MaxMedia == 2    \* media entries in one media.list response
MaxTracks == 2   \* caption assets listed by the platform over the loader's lifetime
MaxCues == 2     \* cues served by the platform over the loader's lifetime
MaxLoads == 2    \* load() invocations on one loader
MaxIndex == 4    \* cap of the window index (not reached: index <= MaxCues)

\* --------------------------------------------------------------- constants
\* pysrt.SubRipTime: ordinal = ... + minutes * 60000 + seconds * 1000 + ms
SECONDS_RATIO == 1000
MINUTES_RATIO == 60 * SECONDS_RATIO
HOURS_RATIO == 60 * MINUTES_RATIO

\* Optional values (Python's None / a value)
None == <<>>
Some(x) == <<x>>
Get(o) == o[1]

Min(S) == CHOOSE x \in S : \A y \in S : x <= y

\* ------------------------------------------------------------------ inputs
\* chunkMinutes arguments, in half minutes: -1, 0, 0.5, 1 and 2 minutes
ChunkMinutesArgs == {-2, 0, 1, 2, 4}

\* int(chunkMinutes): truncation toward zero
IntOf(halves) == IF halves >= 0 THEN halves \div 2 ELSE -((-halves) \div 2)

LanguageCodes == {"en", "EN", "fr"}

\* str.lower on the language codes of the model
Lower(s) == IF s = "EN" THEN "en" ELSE IF s = "FR" THEN "fr" ELSE s

\* the `languages` arguments: None (all languages) or a sequence of codes
LanguagesArgs == {None, Some(<<"EN">>), Some(<<"fr", "en">>)}

SRT == "1"       \* KalturaCaptionType.SRT
DFXP == "2"      \* KalturaCaptionType.DFXP
Formats == {SRT, DFXP}

CaptionAssets == [languageCode : LanguageCodes, format : Formats]

\* start and end ordinals of the cues a caption file may hold (end >= start):
\* a cue starting at 0, one inside the first minute, one spanning the 1:00
\* boundary, one starting at 1:00 exactly, one at 2:05.7 and one at 4:10.
CuePool == {<<0, 1500>>, <<30000, 31000>>, <<59000, 61000>>,
            <<60000, 62000>>, <<125700, 127000>>, <<250000, 251000>>}

\* pysrt.from_string: the items of a file, ordered by start, numbered from 1
CaptionFiles(n) ==
    UNION {{[i \in 1..k |-> [index |-> i, start |-> s[i][1], end |-> s[i][2]]] :
              s \in {q \in [1..k -> CuePool] :
                       \A i \in 1..(k - 1) : q[i][1] <= q[i + 1][1]}} :
           k \in 0..n}

FetchSteps == {"getUrl", "requests.get", "pysrt.from_string"}

VARIABLES pc, error, loads, listed, served,
          mediaFilter, chunkMinutes, urlTemplate, languages,
          mediaEntries, m, documents,
          captionAssets, t, passed, captionDocuments,
          captions, index, start, captionsSection

loaderVars == <<mediaFilter, chunkMinutes, urlTemplate, languages>>
loadVars == <<mediaEntries, m, documents>>
mediaVars == <<captionAssets, t, passed, captionDocuments>>
trackVars == <<captions, index, start, captionsSection>>
vars == <<pc, error, loads, listed, served, loaderVars, loadVars, mediaVars, trackVars>>

Init ==
    /\ pc = "new"
    /\ error = "none"
    /\ loads = 0
    /\ listed = 0
    /\ served = 0
    /\ mediaFilter = None
    /\ chunkMinutes = 0
    /\ urlTemplate = ""
    /\ languages = None
    /\ mediaEntries = <<>>
    /\ m = 0
    /\ documents = <<>>
    /\ captionAssets = <<>>
    /\ t = 0
    /\ passed = FALSE
    /\ captionDocuments = <<>>
    /\ captions = <<>>
    /\ index = 0
    /\ start = None
    /\ captionsSection = <<>>

\* ------------------------------------------------------------- helpers
\* raise in load() or below it: nothing catches the exception, it leaves
\* load() and is the outcome of the call.  The documents collected so far are
\* lost with the frames; the loop positions are kept as the place of the raise.
Raise(e) ==
    /\ pc' = "raised"
    /\ error' = e

\* pysrt.SubRipTime(minutes=n).ordinal
Ordinal(minutes) == minutes * MINUTES_RATIO

\* the window start without the index: every iteration looks at window 0
WindowStart_NoIndex(cm, i) == cm * 0

\* start := self.chunkMinutes * index
WindowStart(cm, i) == cm * i

\* slice without starts_after: the items ending before b
Slice_NoStartsAfter(caps, startsAfter, endsBefore) ==
    SelectSeq(caps, LAMBDA c : c.end < Ordinal(endsBefore))

\* pysrt SubRipFile.slice(starts_after=a, ends_before=b), a and b in minutes:
\* the items with item.start > a and item.end < b (both dicts are non-empty,
\* hence truthy, so both filters apply), in file order
Slice(caps, startsAfter, endsBefore) ==
    SelectSeq(caps, LAMBDA c : /\ c.start > Ordinal(startsAfter)
                               /\ c.end < Ordinal(endsBefore))

\* the seconds rounded to the nearest instead of cut
StartSeconds_Rounded(ordinal) == (ordinal + 500) \div SECONDS_RATIO

\* timestamp.ordinal // 1000
StartSeconds(ordinal) == ordinal \div SECONDS_RATIO

\* self.urlTemplate.format(mediaId=..., startSeconds=...)
Format(tpl, mediaId, startSeconds) ==
    [template |-> tpl, mediaId |-> mediaId, startSeconds |-> startSeconds]

\* str(timestamp)[0:-4]: "HH:MM:SS", the milliseconds cut off
TimestampStr(ordinal) ==
    <<ordinal \div HOURS_RATIO,
      (ordinal % HOURS_RATIO) \div MINUTES_RATIO,
      (ordinal % MINUTES_RATIO) \div SECONDS_RATIO>>

\* captionsSection.text: the items' texts joined in order (item k's text is k)
Text(section) == [i \in 1..Len(section) |-> section[i].index]

\* no format check: every asset is taken for SRT
IsSRT_Any(asset) == TRUE

\* captionAsset.format.value == KalturaCaptionType.SRT
IsSRT(asset) == asset.format = SRT

\* The iterator map(str.lower, languages): the underlying sequence and the
\* number of entries already consumed.
LanguagesIter(arg) ==
    IF arg = None THEN None ELSE Some([seq |-> Get(arg), pos |-> 0])

\* `code in self.languages` on the iterator: the positions not yet consumed
\* whose lower-cased entry equals code
Hits(it, code) ==
    {i \in (it.pos + 1)..Len(it.seq) : Lower(it.seq[i]) = code}

\* the language condition of fetchMediaCaption: TRUE when the track is kept
LanguagePasses(langs, asset) ==
    IF langs = None THEN TRUE
    ELSE Hits(Get(langs), Lower(asset.languageCode)) # {}

\* the iterator after the membership test: consumed up to and including the
\* first hit, or exhausted when there is none
LanguagesAfter(langs, asset) ==
    IF langs = None THEN None
    ELSE LET it == Get(langs)
             h == Hits(it, Lower(asset.languageCode))
         IN  Some([it EXCEPT !.pos = IF h = {} THEN Len(it.seq) ELSE Min(h)])

\* the Document appended for one window
Doc(entry, assetNo, asset, section, i) ==
    LET timestamp == section[1].start
    IN  [page_content |-> Text(section),
         source |-> Format(urlTemplate, entry.id, StartSeconds(timestamp)),
         filename |-> entry.name,
         media_id |-> entry.id,
         timestamp |-> TimestampStr(timestamp),
         caption_id |-> <<entry.id, assetNo>>,
         language_code |-> asset.languageCode,
         caption_format |-> "SRT",
         \* not in the Document: the chunk's start offset and window index
         startOffset |-> timestamp,
         window |-> i]

\* ------------------------------------------------------------- actions
\* KalturaCaptionLoader.__init__
Construct ==
    /\ pc = "new"
    /\ \E credentials \in BOOLEAN, filterType \in {"CATEGORY", "MEDIAID", "str"},
          filterValue \in {"", "v"}, tpl \in {"", "T"}, sessionOk \in BOOLEAN,
          langs \in LanguagesArgs, cm \in ChunkMinutesArgs :
         IF ~credentials \/ filterValue = "" \/ tpl = ""
         THEN /\ pc' = "invalid"
              /\ error' = "ValueError"
              /\ UNCHANGED loaderVars
         ELSE IF filterType = "str"
         THEN /\ pc' = "invalid"
              /\ error' = "TypeError"
              /\ UNCHANGED loaderVars
         ELSE IF ~sessionOk
         THEN /\ pc' = "invalid"
              /\ error' = "startSession"
              /\ UNCHANGED loaderVars
         ELSE /\ pc' = "ready"
              /\ error' = "none"
              /\ mediaFilter' = Some([kind |-> filterType, value |-> filterValue])
              /\ chunkMinutes' = IntOf(cm)
              /\ urlTemplate' = tpl
              /\ languages' = LanguagesIter(langs)
    /\ UNCHANGED <<loads, listed, served, loadVars, mediaVars, trackVars>>

\* the locals of fetchMediaCaption, gone when its frame is left
NoMediaVars ==
    /\ captionAssets' = <<>>
    /\ t' = 0
    /\ passed' = FALSE
    /\ captionDocuments' = <<>>

NoTrackVars ==
    /\ captions' = <<>>
    /\ index' = 0
    /\ start' = None
    /\ captionsSection' = <<>>


\* load() is called: the filter check and self.client.media.list, which
\* answers or raises
Load ==
    /\ pc \in {"ready", "returned", "raised"}
    /\ loads < MaxLoads
    /\ loads' = loads + 1
    /\ m' = 0
    /\ documents' = <<>>
    /\ mediaEntries' = <<>>
    /\ NoMediaVars
    /\ NoTrackVars
    /\ IF mediaFilter = None
       THEN Raise("ValueError")
       ELSE \/ Raise("media.list")
            \/ pc' = "media" /\ error' = "none"
    /\ UNCHANGED <<listed, served, loaderVars>>

\* the entries a media.list response may hold: one at most for an id filter
MediaLimit == IF Get(mediaFilter).kind = "MEDIAID" THEN 1 ELSE MaxMedia

\* the next iteration of load()'s loop: the response holds one more entry;
\* fetchMediaCaption starts and lists its caption assets
NextMedia ==
    /\ pc = "media"
    /\ m < MediaLimit
    /\ m' = m + 1
    /\ mediaEntries' = Append(mediaEntries, [id |-> m + 1, name |-> <<"name", m + 1>>])
    /\ \/ Raise("captionAsset.list") /\ documents' = <<>>
       \/ pc' = "tracks" /\ UNCHANGED <<error, documents>>
    /\ UNCHANGED <<loads, listed, served, loaderVars, mediaVars, trackVars>>

\* the response holds no more entries: load() returns the documents
Return ==
    /\ pc = "media"
    /\ pc' = "returned"
    /\ mediaEntries' = <<>>
    /\ m' = 0
    /\ UNCHANGED <<error, loads, listed, served, loaderVars, documents, mediaVars, trackVars>>

\* the next caption asset is skipped: its language is not in self.languages,
\* or its format is not SRT
SkipTrack ==
    /\ pc = "tracks"
    /\ listed < MaxTracks
    /\ listed' = listed + 1
    /\ \E asset \in CaptionAssets :
         /\ ~LanguagePasses(languages, asset) \/ ~IsSRT(asset)
         /\ captionAssets' = Append(captionAssets, asset)
         /\ passed' = LanguagePasses(languages, asset)
         /\ languages' = LanguagesAfter(languages, asset)
    /\ t' = t + 1
    /\ UNCHANGED <<pc, error, loads, served, mediaFilter, chunkMinutes, urlTemplate,
                   loadVars, captionDocuments, trackVars>>

\* the next caption asset is kept and getUrl, requests.get and
\* pysrt.from_string succeed: the windowing of its captions starts
FetchTrack ==
    /\ pc = "tracks"
    /\ listed < MaxTracks
    /\ listed' = listed + 1
    /\ \E asset \in CaptionAssets :
         /\ LanguagePasses(languages, asset) /\ IsSRT(asset)
         /\ captionAssets' = Append(captionAssets, asset)
         /\ passed' = TRUE
         /\ languages' = LanguagesAfter(languages, asset)
    /\ t' = t + 1
    /\ \E file \in CaptionFiles(MaxCues - served) :
         /\ captions' = file
         /\ served' = served + Len(file)
    /\ index' = 0
    /\ start' = None
    /\ captionsSection' = <<>>
    /\ pc' = "window"
    /\ UNCHANGED <<error, loads, mediaFilter, chunkMinutes, urlTemplate, loadVars,
                   captionDocuments>>

\* the failure caught per asset: it is noted and the loop goes on
FetchFails_Caught ==
    /\ pc = "tracks"
    /\ listed < MaxTracks
    /\ listed' = listed + 1
    /\ \E asset \in CaptionAssets :
         /\ LanguagePasses(languages, asset) /\ IsSRT(asset)
         /\ captionAssets' = Append(captionAssets, asset)
         /\ passed' = TRUE
         /\ languages' = LanguagesAfter(languages, asset)
    /\ t' = t + 1
    /\ \E step \in FetchSteps : error' = step
    /\ UNCHANGED <<pc, loads, served, mediaFilter, chunkMinutes, urlTemplate, loadVars,
                   captionDocuments, trackVars>>

\* the next caption asset is kept and getUrl, requests.get or
\* pysrt.from_string raises
FetchFails ==
    /\ pc = "tracks"
    /\ listed < MaxTracks
    /\ listed' = listed + 1
    /\ \E asset \in CaptionAssets :
         /\ LanguagePasses(languages, asset) /\ IsSRT(asset)
         /\ captionAssets' = Append(captionAssets, asset)
         /\ passed' = TRUE
         /\ languages' = LanguagesAfter(languages, asset)
    /\ t' = t + 1
    /\ \E step \in FetchSteps : Raise(step)
    /\ documents' = <<>>
    /\ captionDocuments' = <<>>
    /\ NoTrackVars
    /\ UNCHANGED <<loads, served, mediaFilter, chunkMinutes, urlTemplate, mediaEntries, m>>

\* the entry has no more caption assets: fetchMediaCaption returns and load()
\* extends documents with its result
EndTracks ==
    /\ pc = "tracks"
    /\ documents' = documents \o captionDocuments
    /\ pc' = "media"
    /\ NoMediaVars
    /\ NoTrackVars
    /\ UNCHANGED <<error, loads, listed, served, loaderVars, mediaEntries, m>>

\* one evaluation of the while condition and, when the section is not empty,
\* of the loop body
Window ==
    /\ pc = "window"
    /\ index < MaxIndex
    /\ LET s == WindowStart(chunkMinutes, index)
           section == Slice(captions, s, s + chunkMinutes)
       IN  /\ start' = Some(s)
           /\ captionsSection' = section
           /\ IF section # <<>>
              THEN /\ captionDocuments' = Append(captionDocuments,
                          Doc(mediaEntries[m], t, captionAssets[t], section, index))
                   /\ index' = index + 1
                   /\ UNCHANGED pc
              ELSE /\ pc' = "tracks"
                   /\ UNCHANGED <<captionDocuments, index>>
    /\ UNCHANGED <<error, loads, listed, served, loaderVars, loadVars, captionAssets, t,
                   passed, captions>>

Next ==
    \/ Construct
    \/ Load
    \/ NextMedia
    \/ Return
    \/ SkipTrack
    \/ FetchTrack
    \/ FetchFails
    \/ EndTracks
    \/ Window

Spec == Init /\ [][Next]_vars

\* the steps of a load() in progress
Run == NextMedia \/ Return \/ SkipTrack \/ FetchTrack \/ FetchFails \/ EndTracks \/ Window

\* The windowing loop on its own: a loader of any accepted chunkMinutes has
\* just parsed the captions of the first asset of its first entry (the states
\* FetchTrack leads to), and the loop runs, one iteration after the other.
WindowInit ==
    /\ pc = "window"
    /\ error = "none"
    /\ loads = 1
    /\ listed = 1
    /\ mediaFilter = Some([kind |-> "MEDIAID", value |-> "v"])
    /\ chunkMinutes \in {IntOf(cm) : cm \in ChunkMinutesArgs}
    /\ urlTemplate = "T"
    /\ languages = None
    /\ mediaEntries = <<[id |-> 1, name |-> <<"name", 1>>]>>
    /\ m = 1
    /\ documents = <<>>
    /\ captionAssets = <<[languageCode |-> "en", format |-> SRT]>>
    /\ t = 1
    /\ passed = TRUE
    /\ captionDocuments = <<>>
    /\ captions \in CaptionFiles(MaxCues)
    /\ served = Len(captions)
    /\ index = 0
    /\ start = None
    /\ captionsSection = <<>>

WindowSpec == WindowInit /\ [][Window]_vars /\ WF_vars(Window)

TypeOK ==
    /\ pc \in {"new", "invalid", "ready", "media", "tracks", "window", "returned", "raised"}
    /\ index \in 0..MaxCues
    /\ listed \in 0..MaxTracks
    /\ served \in 0..MaxCues

\* ------------------------------------------------------------ properties
Range(f) == {f[i] : i \in DOMAIN f}

\* the chunk duration in milliseconds
D == Ordinal(chunkMinutes)

\* the documents of the load so far, the current fetchMediaCaption included
AllDocuments == documents \o captionDocuments

\* the positions in captionDocuments of the chunks of the current track
TrackDocs ==
    {j \in DOMAIN captionDocuments :
       captionDocuments[j].caption_id = <<mediaEntries[m].id, t>>}

\* the windowing loop of track t has just been left, and no later asset has
\* been looked at since
WindowingDone ==
    /\ pc = "tracks"
    /\ t > 0
    /\ passed
    /\ captionAssets[t].format = SRT

\* the lower-cased entries of the allow-list the loader was constructed with
ConfiguredLanguages ==
    {Lower(Get(languages).seq[i]) : i \in DOMAIN Get(languages).seq}

\* C1: for D > 0, when the windowing of a track is over, every cue of the
\* track is in the text of exactly one of the track's chunks.
C1_CuesPartitioned ==
    (WindowingDone /\ chunkMinutes > 0) =>
       \A k \in DOMAIN captions :
          Cardinality({j \in TrackDocs :
                         captions[k].index \in Range(captionDocuments[j].page_content)}) = 1

\* C2: for D > 0, the section selected for a visited window starting at
\* `start` minutes is exactly the cues whose start offset lies in the
\* half-open window [start, start + D), whatever their end offset.
C2_HalfOpenWindowByStart ==
    (start # None /\ chunkMinutes > 0) =>
       captionsSection =
          SelectSeq(captions, LAMBDA c : /\ Ordinal(Get(start)) <= c.start
                                         /\ c.start < Ordinal(Get(start)) + D)

\* the cue lies strictly inside one window: after its start, before its end
Interior(c) == c.start % D # 0 /\ c.end < ((c.start \div D) + 1) * D

\* C3: for D > 0, when the windowing of a track is over, the track has
\* exactly one chunk for each window index that holds a cue and none for any
\* other window: an empty window does not end the windowing.  (Stated for
\* tracks whose cues all lie strictly inside their windows, where the
\* boundaries of the windows play no part.)
C3_OneChunkPerNonEmptyWindow ==
    (WindowingDone /\ chunkMinutes > 0 /\ \A k \in DOMAIN captions : Interior(captions[k])) =>
       LET nonEmpty == {captions[k].start \div D : k \in DOMAIN captions}
       IN  /\ {captionDocuments[j].window : j \in TrackDocs} = nonEmpty
           /\ Cardinality(TrackDocs) = Cardinality(nonEmpty)

\* C4: the last asset examined passed the language filter if and only if the
\* allow-list is None or its lower-cased language code is the lower-casing of
\* an entry of the configured allow-list, whatever was examined before.
C4_LanguageFilterStateless ==
    (t > 0 /\ pc \in {"tracks", "window"}) =>
       (passed <=> (languages = None
                      \/ Lower(captionAssets[t].languageCode) \in ConfiguredLanguages))

\* C5: a loader whose chunk duration is zero or negative never reaches the
\* windowing loop and never returns from load().
C5_NonPositiveRejected ==
    chunkMinutes <= 0 => pc \notin {"window", "returned"}

\* C6: once getUrl, requests.get or pysrt.from_string has raised, load() has
\* ended with that error: the loader takes no further step (no asset or
\* entry is enumerated, fetched or windowed) until load() is called again.
C6_FetchFailureAborts ==
    (error \in FetchSteps) => (pc = "raised" /\ ~ENABLED Run)

\* C7: only SRT assets are fetched and windowed and only they have chunks; an
\* asset of another format leaves the loader at the head of the asset loop
\* with no error.
C7_OnlySRT ==
    /\ (pc = "window" \/ error \in FetchSteps) => captionAssets[t].format = SRT
    /\ \A j \in DOMAIN captionDocuments :
          captionAssets[captionDocuments[j].caption_id[2]].format = SRT
    /\ (t > 0 /\ pc \in {"tracks", "window", "raised"} /\ captionAssets[t].format # SRT) =>
          (pc = "tracks" /\ error = "none")

C9_Provenance ==
    /\ \A j \in DOMAIN AllDocuments :
          LET d == AllDocuments[j]
          IN  /\ d.source.template = urlTemplate
              /\ d.source.mediaId = d.media_id
              /\ d.source.startSeconds * 1000 <= d.startOffset
              /\ d.startOffset < (d.source.startSeconds + 1) * 1000
    /\ (pc = "window" /\ captionsSection # <<>>) =>
          LET d == captionDocuments[Len(captionDocuments)]
          IN  /\ d.startOffset = captionsSection[1].start
              /\ d.media_id = mediaEntries[m].id
              /\ d.caption_id = <<mediaEntries[m].id, t>>
              /\ d.page_content = [k \in DOMAIN captionsSection |-> captionsSection[k].index]

\* C10: the windowing loop of a track ends, whatever the captions and the
\* accepted chunkMinutes, and has appended no more chunks than the track has
\* cues.
C10_WindowingTerminates ==
    /\ <>(pc = "tracks")
    /\ [](Len(captionDocuments) <= Len(captions))

\* ------------------------------------------------------------- witnesses
\* a fetch step raised while the platform had more assets and entries to list
C6_Witness ==
    /\ error \in FetchSteps
    /\ pc = "raised"
    /\ listed < MaxTracks
    /\ m < MaxMedia

\* the first asset of an entry, not SRT, was dropped and the second has a chunk
C7_Witness ==
    /\ Len(captionAssets) >= 2
    /\ captionAssets[1].format # SRT
    /\ \E j \in DOMAIN captionDocuments : captionDocuments[j].caption_id[2] = 2

C9_Witness ==
    \E j \in DOMAIN AllDocuments :
       /\ AllDocuments[j].startOffset = 125700
       /\ AllDocuments[j].source.startSeconds = 125

\* a windowing that went through two windows with cues and then ended
C10_Witness ==
    /\ pc = "tracks"
    /\ index >= 2
    /\ Len(captionDocuments) = 2
====
